---------------------------- MODULE Spec2Model ----------------------------
(***************************************************************************)
(* Model of the example algorithms of the repository:                      *)
(*   - DataProcessor (src/examples/data_processor.py): add_numbers,        *)
(*     running_average, find_peaks over the list self.data;                *)
(*   - Solver (src/examples/solve.py): is_palindrome, find_factors,        *)
(*     are_anagrams, get_permutations.                                     *)
(*                                                                         *)
(* Python values are records [k |-> class name, v |-> payload].  The       *)
(* payload of an int is the integer, of a bool 0 or 1, of a float the      *)
(* number of halves (v = 3 is 1.5; such values and their small sums are    *)
(* exact in binary floating point), of a str an identifier.  A quotient    *)
(* total / i is kept as the exact fraction in lowest terms.                *)
(***************************************************************************)
EXTENDS Integers, Sequences, FiniteSets, TLC

VARIABLES data, call, ret, memo, pc

vars == <<data, call, ret, memo, pc>>

(* ------------------------------ bounds -------------------------------- *)
MaxData == 5
MaxCall == 2
MaxStrLen == 3
MaxAnagramLen == 2
MaxN == 12
MaxItems == 3

(* --------------------------- Python values ---------------------------- *)
PyInt(n) == [k |-> "int", v |-> n]
PyFloat2(h) == [k |-> "float", v |-> h]
PyBool(b) == [k |-> "bool", v |-> b]
PyStr(id) == [k |-> "str", v |-> id]
None == [k |-> "NoneType", v |-> 0]

\* isinstance(x, classes); bool is a subclass of int
IsInstance(x, classes) ==
    \/ x.k \in classes
    \/ x.k = "bool" /\ "int" \in classes

\* twice the numeric value of an int, bool or float
Num2(x) == IF x.k = "float" THEN x.v ELSE 2 * x.v

\* a > b on numbers
Gt(a, b) == Num2(a) > Num2(b)

Abs(n) == IF n < 0 THEN -n ELSE n

RECURSIVE GCD(_, _)
GCD(a, b) == IF b = 0 THEN a ELSE GCD(b, a % b)

\* total / i where total2 is twice total; the quotient in lowest terms
TrueDiv(total2, i) ==
    LET g == GCD(Abs(total2), 2 * i)
    IN  [num |-> total2 \div g, den |-> (2 * i) \div g]

(* --------------------------- DataProcessor ---------------------------- *)
NumericInputs == {PyInt(-1), PyInt(2), PyFloat2(3)}
NonNumericInputs == {PyStr(1), None}
InputValues == NumericInputs \cup NonNumericInputs
Thresholds == {None, PyFloat2(3)}

SeqsUpTo(S, n) == UNION {[1..m -> S] : m \in 0..n}

RECURSIVE add_numbers_loop(_, _, _)
add_numbers_loop(d, numbers, j) ==
    IF j > Len(numbers)
    THEN [data |-> d, raised |-> "none", value |-> None]
    ELSE IF ~IsInstance(numbers[j], {"int", "float"})
         THEN [data |-> d, raised |-> "ValueError", value |-> numbers[j]]
         ELSE add_numbers_loop(Append(d, numbers[j]), numbers, j + 1)

RECURSIVE add_numbers_front_loop(_, _, _)
add_numbers_front_loop(d, numbers, j) ==
    IF j > Len(numbers)
    THEN [data |-> d, raised |-> "none", value |-> None]
    ELSE IF ~IsInstance(numbers[j], {"int", "float"})
         THEN [data |-> d, raised |-> "ValueError", value |-> numbers[j]]
         ELSE add_numbers_front_loop(<<numbers[j]>> \o d, numbers, j + 1)

\* variant: self.data.insert(0, num) in place of self.data.append(num)
add_numbers_front(d, numbers) == add_numbers_front_loop(d, numbers, 1)

add_numbers(d, numbers) == add_numbers_loop(d, numbers, 1)

RECURSIVE running_average_loop(_, _, _, _)
running_average_loop(d, i, total2, result) ==
    IF i > Len(d)
    THEN result
    ELSE LET t == total2 + Num2(d[i])
         IN  running_average_loop(d, i + 1, t, Append(result, TrueDiv(t, i)))

RECURSIVE running_average_reset_loop(_, _, _, _)
running_average_reset_loop(d, i, total2, result) ==
    IF i > Len(d)
    THEN result
    ELSE LET t == Num2(d[i])
         IN  running_average_reset_loop(d, i + 1, t, Append(result, TrueDiv(t, i)))

\* variant: total = num in place of total += num
running_average_reset(d) ==
    IF Len(d) = 0 THEN <<>> ELSE running_average_reset_loop(d, 1, 0, <<>>)

running_average(d) ==
    IF Len(d) = 0 THEN <<>> ELSE running_average_loop(d, 1, 0, <<>>)

\* index i is the 0-based Python index; data[i] is d[i + 1]
RECURSIVE find_peaks_loop(_, _, _, _)
find_peaks_loop(d, threshold, i, peaks) ==
    IF i >= Len(d) - 1
    THEN peaks
    ELSE IF /\ Gt(d[i + 1], d[i]) /\ Gt(d[i + 1], d[i + 2])
            /\ (threshold = None \/ Gt(d[i + 1], threshold))
         THEN find_peaks_loop(d, threshold, i + 1, Append(peaks, <<i, d[i + 1]>>))
         ELSE find_peaks_loop(d, threshold, i + 1, peaks)

RECURSIVE find_peaks_ge_loop(_, _, _, _)
find_peaks_ge_loop(d, threshold, i, peaks) ==
    IF i >= Len(d) - 1
    THEN peaks
    ELSE IF /\ Gt(d[i + 1], d[i]) /\ ~Gt(d[i + 2], d[i + 1])
            /\ (threshold = None \/ Gt(d[i + 1], threshold))
         THEN find_peaks_ge_loop(d, threshold, i + 1, Append(peaks, <<i, d[i + 1]>>))
         ELSE find_peaks_ge_loop(d, threshold, i + 1, peaks)

\* variant: self.data[i] >= self.data[i+1] in place of >
find_peaks_ge(d, threshold) ==
    IF Len(d) < 3 THEN <<>> ELSE find_peaks_ge_loop(d, threshold, 1, <<>>)

find_peaks(d, threshold) ==
    IF Len(d) < 3 THEN <<>> ELSE find_peaks_loop(d, threshold, 1, <<>>)

\* history of the query results since the last add_numbers call
NoMemo ==
    [avg |-> [n |-> 0, val |-> <<>>],
     peaks |-> [t \in Thresholds |-> [n |-> 0, val |-> <<>>]]]

Remember(m, val) == IF m.n = 0 THEN [n |-> 1, val |-> val] ELSE [n |-> 2, val |-> m.val]

InitDP ==
    /\ data = <<>>
    /\ call = [op |-> "__init__", numbers |-> <<>>, threshold |-> None]
    /\ ret = [raised |-> "none", value |-> <<>>]
    /\ memo = NoMemo
    /\ pc = "ready"

AddNumbers ==
    \E numbers \in SeqsUpTo(InputValues, MaxCall) :
        /\ Len(data) + Len(numbers) <= MaxData
        /\ LET r == add_numbers(data, numbers)
           IN  /\ data' = r.data
               /\ ret' = [raised |-> r.raised, value |-> <<>>]
        /\ call' = [op |-> "add_numbers", numbers |-> numbers, threshold |-> None]
        /\ memo' = NoMemo
        /\ UNCHANGED pc

\* variant: the query consumes the list (self.data.pop(0) in the loop)
RunningAverageConsuming ==
    /\ ret' = [raised |-> "none", value |-> running_average(data)]
    /\ data' = <<>>
    /\ call' = [op |-> "running_average", numbers |-> <<>>, threshold |-> None]
    /\ memo' = [memo EXCEPT !.avg = Remember(@, running_average(data))]
    /\ UNCHANGED pc

RunningAverage ==
    /\ ret' = [raised |-> "none", value |-> running_average(data)]
    /\ call' = [op |-> "running_average", numbers |-> <<>>, threshold |-> None]
    /\ memo' = [memo EXCEPT !.avg = Remember(@, running_average(data))]
    /\ UNCHANGED <<data, pc>>

FindPeaks ==
    \E threshold \in Thresholds :
        /\ ret' = [raised |-> "none", value |-> find_peaks(data, threshold)]
        /\ call' = [op |-> "find_peaks", numbers |-> <<>>, threshold |-> threshold]
        /\ memo' = [memo EXCEPT !.peaks[threshold] =
                        Remember(@, find_peaks(data, threshold))]
        /\ UNCHANGED <<data, pc>>

NextDP == AddNumbers \/ RunningAverage \/ FindPeaks

Spec == InitDP /\ [][NextDP]_vars



(* ------------------------------- Solver ------------------------------- *)
Alphabet == {"a", "A", "b", " ", "1"}

\* char.isalnum()
isalnum(char) == char \in {"a", "A", "b", "1"}

\* char.lower()
lower(char) == IF char = "A" THEN "a" ELSE char

Reverse(s) == [i \in 1..Len(s) |-> s[Len(s) + 1 - i]]

\* ''.join(char.lower() for char in text if char.isalnum())
RECURSIVE cleaned_loop(_, _, _)
cleaned_loop(text, j, acc) ==
    IF j > Len(text)
    THEN acc
    ELSE IF isalnum(text[j])
         THEN cleaned_loop(text, j + 1, Append(acc, lower(text[j])))
         ELSE cleaned_loop(text, j + 1, acc)

cleaned(text) == cleaned_loop(text, 1, <<>>)

\* variant: the comparison is made on the text as given
is_palindrome_raw(text) == text = Reverse(text)

is_palindrome(text) == cleaned(text) = Reverse(cleaned(text))

RECURSIVE find_factors_loop(_, _, _)
find_factors_loop(n, i, factors) ==
    IF i >= n + 1
    THEN factors
    ELSE IF n % i = 0
         THEN find_factors_loop(n, i + 1, Append(factors, i))
         ELSE find_factors_loop(n, i + 1, factors)

\* variant: range(1, n) in place of range(1, n + 1)
find_factors_short(n) ==
    IF ~IsInstance(n, {"int"})
    THEN [raised |-> "ValueError", msg |-> "Input must be an integer", value |-> <<>>]
    ELSE IF n.v <= 0
         THEN [raised |-> "ValueError", msg |-> "Input must be positive", value |-> <<>>]
         ELSE [raised |-> "none", msg |-> "",
               value |-> find_factors_loop(n.v - 1, 1, <<>>)]

\* variant: n < 0 in place of n <= 0
find_factors_zero(n) ==
    IF ~IsInstance(n, {"int"})
    THEN [raised |-> "ValueError", msg |-> "Input must be an integer", value |-> <<>>]
    ELSE IF n.v < 0
         THEN [raised |-> "ValueError", msg |-> "Input must be positive", value |-> <<>>]
         ELSE [raised |-> "none", msg |-> "",
               value |-> find_factors_loop(n.v, 1, <<>>)]

find_factors(n) ==
    IF ~IsInstance(n, {"int"})
    THEN [raised |-> "ValueError", msg |-> "Input must be an integer", value |-> <<>>]
    ELSE IF n.v <= 0
         THEN [raised |-> "ValueError", msg |-> "Input must be positive", value |-> <<>>]
         ELSE [raised |-> "none", msg |-> "",
               value |-> find_factors_loop(n.v, 1, <<>>)]

EmptyDict == [c \in {} |-> 0]

\* freq[char] = freq.get(char, 0) + 1 for each char of s
RECURSIVE freq_loop(_, _, _)
freq_loop(s, j, freq) ==
    IF j > Len(s)
    THEN freq
    ELSE LET char == s[j]
         IN  IF char \in DOMAIN freq
             THEN freq_loop(s, j + 1, [freq EXCEPT ![char] = @ + 1])
             ELSE freq_loop(s, j + 1, freq @@ (char :> 1))

\* variant: the key sets are compared in place of the dictionaries
are_anagrams_keys(str1, str2) ==
    LET s1 == cleaned(str1)
        s2 == cleaned(str2)
    IN  IF s1 = <<>> \/ s2 = <<>>
        THEN FALSE
        ELSE DOMAIN freq_loop(s1, 1, EmptyDict) = DOMAIN freq_loop(s2, 1, EmptyDict)

are_anagrams(str1, str2) ==
    LET s1 == cleaned(str1)
        s2 == cleaned(str2)
    IN  IF s1 = <<>> \/ s2 = <<>>
        THEN FALSE
        ELSE freq_loop(s1, 1, EmptyDict) = freq_loop(s2, 1, EmptyDict)

\* items[:i] + items[i+1:] for the 1-based position i
Remaining(items, i) == SubSeq(items, 1, i - 1) \o SubSeq(items, i + 1, Len(items))

RECURSIVE get_permutations_rev(_)
\* variant: the permutations of the remaining items are taken in reverse
get_permutations_rev(items) ==
    IF Len(items) <= 1
    THEN <<items>>
    ELSE LET block(i) ==
                 LET sub == get_permutations_rev(Remaining(items, i))
                 IN  [j \in 1..Len(sub) |-> <<items[i]>> \o sub[Len(sub) + 1 - j]]
             loop[i \in 1..(Len(items) + 1)] ==
                 IF i > Len(items) THEN <<>> ELSE block(i) \o loop[i + 1]
         IN  loop[1]

RECURSIVE get_permutations(_)
RECURSIVE get_permutations_loop(_, _, _)
get_permutations_loop(items, i, perms) ==
    IF i > Len(items)
    THEN perms
    ELSE LET current == items[i]
             remaining == Remaining(items, i)
             sub == get_permutations(remaining)
         IN  get_permutations_loop(items, i + 1,
                 perms \o [j \in 1..Len(sub) |-> <<current>> \o sub[j]])

get_permutations(items) ==
    IF Len(items) <= 1
    THEN <<items>>
    ELSE get_permutations_loop(items, 1, <<>>)

Items == {"A", "B", "C", "D"}

FactorInputs ==
    {PyInt(n) : n \in -3..MaxN}
        \cup {PyFloat2(4), PyFloat2(5), PyFloat2(-2), PyStr(1), None, PyBool(0), PyBool(1)}

NoCall == [op |-> "none", text |-> <<>>, str2 |-> <<>>, n |-> None, items |-> <<>>]

SolverCalls ==
    {[NoCall EXCEPT !.op = "is_palindrome", !.text = t] :
        t \in SeqsUpTo(Alphabet, MaxStrLen)}
    \cup {[NoCall EXCEPT !.op = "are_anagrams", !.text = t[1], !.str2 = t[2]] :
        t \in SeqsUpTo(Alphabet, MaxAnagramLen) \X SeqsUpTo(Alphabet, MaxAnagramLen)}
    \cup {[NoCall EXCEPT !.op = "find_factors", !.n = n] : n \in FactorInputs}
    \cup {[NoCall EXCEPT !.op = "get_permutations", !.items = t] :
        t \in SeqsUpTo(Items, MaxItems)}

InitSolver ==
    /\ data = <<>>
    /\ memo = NoMemo
    /\ call \in SolverCalls
    /\ ret = [raised |-> "none", msg |-> "", value |-> <<>>]
    /\ pc = "call"

IsPalindrome ==
    /\ pc = "call"
    /\ call.op = "is_palindrome"
    /\ ret' = [raised |-> "none", msg |-> "", value |-> is_palindrome(call.text)]
    /\ pc' = "done"
    /\ UNCHANGED <<data, call, memo>>

FindFactors ==
    /\ pc = "call"
    /\ call.op = "find_factors"
    /\ ret' = find_factors(call.n)
    /\ pc' = "done"
    /\ UNCHANGED <<data, call, memo>>

AreAnagrams ==
    /\ pc = "call"
    /\ call.op = "are_anagrams"
    /\ ret' = [raised |-> "none", msg |-> "",
               value |-> are_anagrams(call.text, call.str2)]
    /\ pc' = "done"
    /\ UNCHANGED <<data, call, memo>>

GetPermutations ==
    /\ pc = "call"
    /\ call.op = "get_permutations"
    /\ ret' = [raised |-> "none", msg |-> "", value |-> get_permutations(call.items)]
    /\ pc' = "done"
    /\ UNCHANGED <<data, call, memo>>

NextSolver == IsPalindrome \/ FindFactors \/ AreAnagrams \/ GetPermutations

SpecSolver == InitSolver /\ [][NextSolver]_vars

(* ------------------------ DataProcessor claims ------------------------ *)
IsNonNumeric(x) == x.k \notin {"int", "float", "bool"}

\* C1: a call of add_numbers whose values contain a non-numeric element
\* fails and leaves self.data exactly as it was before the call.
C1_AtomicIngest ==
    [][(/\ call'.op = "add_numbers"
        /\ \E j \in 1..Len(call'.numbers) : IsNonNumeric(call'.numbers[j]))
       => (ret'.raised = "ValueError" /\ data' = data)]_vars

\* the data of analyze_data and its peaks above the threshold 3.0
ExampleData ==
    <<PyInt(1), PyInt(3), PyInt(2), PyInt(4), PyInt(1), PyInt(5), PyInt(2),
      PyInt(6), PyInt(4)>>

ExamplePeaks == <<<<3, PyInt(4)>>, <<5, PyInt(5)>>, <<7, PyInt(6)>>>>

PeakIndices(d, th) ==
    {i \in 0..(Len(d) - 1) :
        /\ 0 < i
        /\ i < Len(d) - 1
        /\ Num2(d[i + 1]) > Num2(d[i])
        /\ Num2(d[i + 1]) > Num2(d[i + 2])
        /\ (th.k # "NoneType" => Num2(d[i + 1]) > Num2(th))}

IsPeakList(res, d, th) ==
    /\ Len(res) = Cardinality(PeakIndices(d, th))
    /\ \A k \in 1..Len(res) :
           /\ res[k][1] \in PeakIndices(d, th)
           /\ res[k][2] = d[res[k][1] + 1]
    /\ \A k \in 1..(Len(res) - 1) : res[k][1] < res[k + 1][1]
    /\ (Len(d) < 3 => res = <<>>)

\* C2: find_peaks(threshold) returns exactly the pairs (i, data[i]) of the
\* interior indices whose element is strictly greater than both neighbours
\* and than the threshold when one is given, in ascending index order, and
\* nothing for fewer than 3 elements.
C2_FindPeaks ==
    /\ call.op = "find_peaks" => IsPeakList(ret.value, data, call.threshold)
    /\ find_peaks(ExampleData, PyFloat2(6)) = ExamplePeaks

C2_Witness ==
    /\ call.op = "find_peaks"
    /\ call.threshold # None
    /\ Len(ret.value) = 1
    /\ Cardinality(PeakIndices(data, None)) = 2

RECURSIVE Sum2(_)
Sum2(s) == IF s = <<>> THEN 0 ELSE Num2(s[Len(s)]) + Sum2(SubSeq(s, 1, Len(s) - 1))

\* C3: running_average returns [] for no data and otherwise one entry per
\* element, entry i being the sum of the first i+1 elements over i+1.
C3_RunningAverage ==
    call.op = "running_average" =>
        /\ (data = <<>> => ret.value = <<>>)
        /\ Len(ret.value) = Len(data)
        /\ \A i \in 1..Len(data) :
               /\ ret.value[i].den > 0
               /\ ret.value[i].num * 2 * i
                      = Sum2(SubSeq(data, 1, i)) * ret.value[i].den

C3_Witness ==
    /\ call.op = "running_average"
    /\ Len(data) >= 3
    /\ \E i \in 1..Len(data) : ret.value[i].den > 1
    /\ \E i \in 1..Len(data) : ret.value[i].num < 0
    /\ \E i, j \in 1..Len(data) : data[i].k = "int" /\ data[j].k = "float"

\* C9: running_average and find_peaks leave self.data unchanged, and a
\* repeated call (same threshold) with no add_numbers call in between
\* returns what the first such call returned.
C9_QueriesPure ==
    [][/\ call'.op = "running_average" =>
            /\ data' = data
            /\ (memo.avg.n > 0 => ret'.value = memo.avg.val)
       /\ call'.op = "find_peaks" =>
            /\ data' = data
            /\ (memo.peaks[call'.threshold].n > 0
                    => ret'.value = memo.peaks[call'.threshold].val)]_vars

C9_Witness ==
    /\ call.op = "running_average"
    /\ data # <<>>
    /\ memo.avg.n = 2
    /\ \E t \in Thresholds : memo.peaks[t].n = 2 /\ memo.peaks[t].val # <<>>

IsPrefix(s, t) == Len(s) <= Len(t) /\ SubSeq(t, 1, Len(s)) = s

\* C10: self.data is append-only: the list before any operation is a
\* prefix of the list after it, and a successful add_numbers(values)
\* leaves the old list followed by values in the given order.
C10_AppendOnly ==
    [][/\ IsPrefix(data, data')
       /\ (call'.op = "add_numbers" /\ ret'.raised = "none")
              => data' = data \o call'.numbers]_vars

C10_Witness ==
    /\ call.op = "add_numbers"
    /\ ret.raised = "none"
    /\ Len(call.numbers) = 2
    /\ call.numbers[1] # call.numbers[2]
    /\ Len(data) > 2

(* --------------------------- Solver claims ---------------------------- *)
Done(op) == pc = "done" /\ call.op = op

RECURSIVE Fact(_)
Fact(n) == IF n <= 0 THEN 1 ELSE n * Fact(n - 1)

\* the k-th (0-based) sequence of the recursive rule: the block of head
\* items[i] holds the sequences of the rule for items without position i
RECURSIVE RulePerm(_, _)
RulePerm(items, k) ==
    IF Len(items) <= 1
    THEN items
    ELSE LET f == Fact(Len(items) - 1)
             i == (k \div f) + 1
             rest == [j \in 1..(Len(items) - 1) |->
                         IF j < i THEN items[j] ELSE items[j + 1]]
         IN  <<items[i]>> \o RulePerm(rest, k % f)

Distinct(items) == \A i, j \in 1..Len(items) : items[i] = items[j] => i = j

Orderings(items) ==
    {[j \in 1..Len(items) |-> items[f[j]]] :
        f \in {g \in [1..Len(items) -> 1..Len(items)] :
                  \A a, b \in 1..Len(items) : g[a] = g[b] => a = b}}

\* C4: get_permutations(items) returns N! sequences in the order of the
\* recursive rule (blocks by head in input order); for distinct items each
\* ordering appears exactly once and the first is the input; for length
\* <= 1 the result is the one-element list holding the input.
C4_Permutations ==
    Done("get_permutations") =>
        LET items == call.items
            res == ret.value
        IN  /\ Len(res) = Fact(Len(items))
            /\ \A k \in 1..Len(res) : res[k] = RulePerm(items, k - 1)
            /\ Distinct(items) =>
                   /\ {res[k] : k \in 1..Len(res)} = Orderings(items)
                   /\ \A k, l \in 1..Len(res) : res[k] = res[l] => k = l
                   /\ res[1] = items
            /\ Len(items) <= 1 => res = <<items>>

C4_Witness ==
    /\ Done("get_permutations")
    /\ Len(call.items) = 3
    /\ Distinct(call.items)
    /\ call.items[1] = "B"
    /\ Len(ret.value) = 6

AlnumChars == {"a", "A", "b", "1"}

CaseFold(c) == IF c = "A" THEN "a" ELSE c

KeepAlnum(text) == SelectSeq(text, LAMBDA c : c \in AlnumChars)

NormalizedText(text) ==
    [i \in 1..Len(KeepAlnum(text)) |-> CaseFold(KeepAlnum(text)[i])]

Count(s, c) == Cardinality({i \in 1..Len(s) : s[i] = c})

\* C5: are_anagrams(a, b) is false when either normalized string is empty
\* and otherwise true iff every character occurs equally often in both
\* normalized strings.
C5_Anagrams ==
    Done("are_anagrams") =>
        LET n1 == NormalizedText(call.text)
            n2 == NormalizedText(call.str2)
        IN  /\ (Len(n1) = 0 \/ Len(n2) = 0) => ret.value = FALSE
            /\ (Len(n1) > 0 /\ Len(n2) > 0) =>
                   (ret.value = TRUE <=> \A c \in Alphabet : Count(n1, c) = Count(n2, c))
            /\ are_anagrams(<<>>, <<>>) = FALSE

C5_Witness ==
    /\ Done("are_anagrams")
    /\ ret.value = TRUE
    /\ Len(call.text) # Len(call.str2)
    /\ "A" \in {call.text[i] : i \in 1..Len(call.text)}

\* C6: find_factors(n) for an integer n > 0 returns exactly the d in 1..n
\* with n mod d = 0, each once, ascending, from 1 to n.
C6_Factors ==
    /\ (Done("find_factors") /\ call.n.k = "int" /\ call.n.v > 0) =>
           LET n == call.n.v
               res == ret.value
           IN  /\ ret.raised = "none"
               /\ {res[k] : k \in 1..Len(res)} = {d \in 1..n : n % d = 0}
               /\ \A k \in 1..(Len(res) - 1) : res[k] < res[k + 1]
               /\ res[1] = 1
               /\ res[Len(res)] = n
    /\ find_factors(PyInt(28)).value = <<1, 2, 4, 7, 14, 28>>

C6_Witness ==
    /\ Done("find_factors")
    /\ call.n = PyInt(12)
    /\ Len(ret.value) = 6

\* C7: find_factors(n) raises, returning no list, for every n that is not
\* an integer and for every integer n <= 0.
C7_FactorsRejects ==
    (/\ Done("find_factors")
     /\ \/ call.n.k \notin {"int", "bool"}
        \/ call.n.v <= 0) =>
        /\ ret.raised = "ValueError"
        /\ ret.value = <<>>

C7_Witness ==
    /\ Done("find_factors")
    /\ call.n = PyInt(0)
    /\ ret.raised = "ValueError"

\* C8: is_palindrome(text) is true iff the normalized text equals its own
\* reverse, hence true when the normalized text has at most one character.
C8_Palindrome ==
    Done("is_palindrome") =>
        LET n == NormalizedText(call.text)
        IN  /\ ret.value = TRUE <=> \A i \in 1..Len(n) : n[i] = n[Len(n) + 1 - i]
            /\ Len(n) <= 1 => ret.value = TRUE

C8_Witness ==
    /\ Done("is_palindrome")
    /\ ret.value = TRUE
    /\ call.text = <<"A", " ", "a">>

=============================================================================
